---------------------------- MODULE Spec2Model ----------------------------
(***************************************************************************)
(* Democrac.IA API core (src/moe_api_server.py): the read-only query       *)
(* handlers over the SQLite tables moe_observation and moe_election and    *)
(* over the MOEP report directory.                                         *)
(*                                                                         *)
(* One request is in flight at a time (the handlers share no state, so a   *)
(* second concurrent request adds nothing); the tables are written by the  *)
(* external ingestion / election-tracking processes, whose inserts         *)
(* interleave with the handler's queries.  Every cur.execute is one step:  *)
(* python's sqlite3 runs each SELECT in autocommit mode, so a handler      *)
(* with several SELECTs reads several store states.                        *)
(*                                                                         *)
(* Representation:                                                         *)
(*   - text is a TLA+ string; Chars gives its characters where the code    *)
(*     looks inside it (upper(), LIKE, glob, split, string comparison);    *)
(*   - a one-decimal float (ire_index) is the integer number of tenths;    *)
(*   - an SQL value that may be NULL is <<>> (NULL) or <<n>>;              *)
(*   - timestamps and dates are integers ordered as the column is.         *)
(***************************************************************************)
EXTENDS Integers, Sequences, FiniteSets

VARIABLES
    store,        \* table moe_observation, in rowid order
    registry,     \* table moe_election, in rowid order
    pc,           \* position of the request in flight
    req,          \* the request: handler, iso, limit
    conn,         \* the request's sqlite3 connection: none / open / closed
    total_obs,    \* get_dashboard_stats local
    critical_obs, \* get_dashboard_stats local
    row,          \* get_election_detail local: <<>> (None) or <<election row>>
    response      \* what the request ended in

vars == <<store, registry, pc, req, conn, total_obs, critical_obs, row, response>>

---------------------------------------------------------------------------
(* Bounds of the model *)

MaxObs == 2

MaxElections == 2

(* default of the limit query parameter *)
DefaultLimit == 10

---------------------------------------------------------------------------
(* Text *)

Alphabet ==
    << " ", ".",
       "0", "1", "2", "3", "4", "5", "6", "7", "8", "9", "?",
       "A", "B", "C", "D", "E", "F", "G", "H", "I", "J", "K", "L", "M",
       "N", "O", "P", "Q", "R", "S", "T", "U", "V", "W", "X", "Y", "Z",
       "_",
       "a", "b", "c", "d", "e", "f", "g", "h", "i", "j", "k", "l", "m",
       "n", "o", "p", "q", "r", "s", "t", "u", "v", "w", "x", "y", "z" >>

(* code point order of the characters in use *)
Ord(c) == CHOOSE i \in 1..Len(Alphabet) : Alphabet[i] = c

FirstUpper == Ord("A")

FirstLower == Ord("a")

UpperChar(c) ==
    IF Ord(c) >= FirstLower THEN Alphabet[Ord(c) - FirstLower + FirstUpper] ELSE c

(* str.upper() *)
Upper(cs) == [i \in 1..Len(cs) |-> UpperChar(cs[i])]

Chars(s) ==
    CASE s = "ug" -> <<"u", "g">>
      [] s = "UG" -> <<"U", "G">>
      [] s = "AR" -> <<"A", "R">>
      [] s = "ZZ" -> <<"Z", "Z">>
      [] s = "NG" -> <<"N", "G">>
      [] s = "KE" -> <<"K", "E">>
      [] s = "??" -> <<"?", "?">>
      [] s = "Uganda" -> <<"U", "g", "a", "n", "d", "a">>
      [] s = "Argentina" -> <<"A", "r", "g", "e", "n", "t", "i", "n", "a">>
      [] s = "VOTO_EXTERIOR" ->
           <<"V", "O", "T", "O", "_", "E", "X", "T", "E", "R", "I", "O", "R">>
      [] s = "IRREGULARIDAD" ->
           <<"I", "R", "R", "E", "G", "U", "L", "A", "R", "I", "D", "A", "D">>
      [] s = "TRANSPARENCIA" ->
           <<"T", "R", "A", "N", "S", "P", "A", "R", "E", "N", "C", "I", "A">>
      [] s = "MOE Uganda" -> <<"M", "O", "E", " ", "U", "g", "a", "n", "d", "a">>
      [] s = "Prensa" -> <<"P", "r", "e", "n", "s", "a">>
      [] s = "MOEP_NG_INTEGRAL.html" ->
           <<"M", "O", "E", "P", "_", "N", "G", "_",
             "I", "N", "T", "E", "G", "R", "A", "L", ".", "h", "t", "m", "l">>
      [] s = "MOEP_NG_R2_INTEGRAL.html" ->
           <<"M", "O", "E", "P", "_", "N", "G", "_", "R", "2", "_",
             "I", "N", "T", "E", "G", "R", "A", "L", ".", "h", "t", "m", "l">>
      [] s = "MOEP_KE_INTEGRAL.html" ->
           <<"M", "O", "E", "P", "_", "K", "E", "_",
             "I", "N", "T", "E", "G", "R", "A", "L", ".", "h", "t", "m", "l">>
      [] s = "README.md" -> <<"R", "E", "A", "D", "M", "E", ".", "m", "d">>

(* a < b for two texts, by code point, a proper prefix first *)
RECURSIVE CharsLess(_, _)
CharsLess(a, b) ==
    IF b = <<>> THEN FALSE
    ELSE IF a = <<>> THEN TRUE
    ELSE IF Head(a) # Head(b) THEN Ord(Head(a)) < Ord(Head(b))
    ELSE CharsLess(Tail(a), Tail(b))

StrLess(s, t) == CharsLess(Chars(s), Chars(t))

(* text LIKE '%inner%': SQLite's LIKE ignores ASCII case *)
Like(text, inner) ==
    LET t == Upper(text)
        p == Upper(inner)
    IN  \E i \in 1..(Len(t) + 1) :
            /\ i + Len(p) - 1 <= Len(t)
            /\ SubSeq(t, i, i + Len(p) - 1) = p

---------------------------------------------------------------------------
(* Numbers *)

Max(a, b) == IF a >= b THEN a ELSE b

Min(a, b) == IF a <= b THEN a ELSE b

(* round(num / den, 0) as python rounds: to nearest, a tie to even *)
RoundHalfEven(num, den) ==
    LET q == num \div den
        r == num % den
    IN  IF 2 * r < den THEN q
        ELSE IF 2 * r > den THEN q + 1
        ELSE IF q % 2 = 0 THEN q ELSE q + 1

(* min(round((critical_obs / max(total_obs, 1)) * 100, 1), 100), in tenths *)
IreIndex(critical, total) ==
    Min(RoundHalfEven(critical * 1000, Max(total, 1)), 1000)

Null == <<>>

Some(n) == <<n>>

---------------------------------------------------------------------------
(* Rows the external processes write *)

ObsPool ==
    { [category |-> "VOTO_EXTERIOR", indicator |-> "i1", severity |-> "CRITICO",
       captured_at |-> 2, source_name |-> "MOE Uganda", source_url |-> Null],
      [category |-> "IRREGULARIDAD", indicator |-> "i2", severity |-> "ALERTA",
       captured_at |-> 1, source_name |-> "Prensa", source_url |-> Null],
      [category |-> "TRANSPARENCIA", indicator |-> "i3", severity |-> "MODERADO",
       captured_at |-> 2, source_name |-> "MOE Uganda", source_url |-> Null] }

ElectionPool ==
    { [country_iso2 |-> "UG", country_name |-> "Uganda",
       election_type |-> "Presidential", election_date |-> 2,
       monitoring_status |-> "ACTIVE"],
      [country_iso2 |-> "UG", country_name |-> "Uganda",
       election_type |-> "General", election_date |-> 1,
       monitoring_status |-> "CLOSED"],
      [country_iso2 |-> "AR", country_name |-> "Argentina",
       election_type |-> "Congressional", election_date |-> 1,
       monitoring_status |-> "ACTIVE"],
      [country_iso2 |-> "AR", country_name |-> "Argentina",
       election_type |-> "Referendum", election_date |-> 3,
       monitoring_status |-> "PENDING"] }

IsoArgs == {"ug", "UG", "AR", "ZZ"}

Limits == {-1, 0, 1, DefaultLimit}

WithId(r, n) == [x \in (DOMAIN r) \cup {"id"} |-> IF x = "id" THEN n ELSE r[x]]

---------------------------------------------------------------------------
(* Requests and responses *)

NoRequest == [handler |-> "none", iso |-> "", limit |-> 0]

NoResponse == [handler |-> "none", status |-> 0, detail |-> "", body |-> <<>>]

Ok(h, b) == [handler |-> h, status |-> 200, detail |-> "", body |-> b]

(* raise HTTPException(status_code=c, detail=d) reaching the framework *)
HttpError(h, c, d) == [handler |-> h, status |-> c, detail |-> d, body |-> <<>>]

Idle == pc \in {"idle", "done"}

Init ==
    /\ store = <<>>
    /\ registry = <<>>
    /\ pc = "idle"
    /\ req = NoRequest
    /\ conn = "none"
    /\ total_obs = 0
    /\ critical_obs = 0
    /\ row = <<>>
    /\ response = NoResponse

---------------------------------------------------------------------------
(* The external writers of the two tables *)

Ingest ==
    \E o \in ObsPool :
        /\ Len(store) < MaxObs
        /\ store' = Append(store, WithId(o, Len(store) + 1))
        /\ UNCHANGED <<registry, pc, req, conn, total_obs, critical_obs, row, response>>

RegisterElection ==
    \E e \in ElectionPool :
        /\ Len(registry) < MaxElections
        /\ registry' = Append(registry, WithId(e, Len(registry) + 1))
        /\ UNCHANGED <<store, pc, req, conn, total_obs, critical_obs, row, response>>


---------------------------------------------------------------------------
(* Steps shared by the database-backed handlers *)

(* Entry of a handler up to and including conn = get_db_connection() *)
Connect(h, iso, limit, next) ==
    /\ pc' = next
    /\ req' = [handler |-> h, iso |-> iso, limit |-> limit]
    /\ conn' = "open"
    /\ total_obs' = 0
    /\ critical_obs' = 0
    /\ row' = <<>>
    /\ response' = NoResponse
    /\ UNCHANGED <<store, registry>>

(* return / raise out of the handler: the locals go out of scope *)
Finish(r) ==
    /\ pc' = "done"
    /\ response' = r
    /\ total_obs' = 0
    /\ critical_obs' = 0
    /\ row' = <<>>
    /\ UNCHANGED <<store, registry>>

QueryPcs ==
    { "stats_total", "stats_critical", "stats_overseas", "latest_query",
      "elections_query", "detail1_select", "detail1_stats", "detail2_select" }

(* sqlite3.connect raises: except Exception -> HTTP 500, no connection made *)
ConnectRaises ==
    \E h \in {"stats", "latest", "elections", "detail1", "detail2"} :
        /\ Idle
        /\ req' = [handler |-> h, iso |-> "", limit |-> 0]
        /\ conn' = "none"
        /\ Finish(HttpError(h, 500, "sqlite3 error"))

(* cur.execute raises: except Exception -> HTTP 500; conn.close() is skipped *)
QueryRaises ==
    /\ pc \in QueryPcs
    /\ UNCHANGED <<req, conn>>
    /\ Finish(HttpError(req.handler, 500, "sqlite3 error"))

---------------------------------------------------------------------------
(* GET /  read_root *)

ReadRoot ==
    /\ Idle
    /\ req' = [handler |-> "root", iso |-> "", limit |-> 0]
    /\ conn' = "none"
    /\ Finish(Ok("root", [status |-> "online",
                          system |-> "Democrac.IA Elite Core v9.9.8"]))

---------------------------------------------------------------------------
(* GET /api/dashboard/stats  get_dashboard_stats *)

(* SELECT COUNT of all rows FROM moe_observation *)
CountTotal(s) == Len(s)

IsCriticalRisk(o) == o.severity \in {"CRITICO", "ALERTA"}

(* ... WHERE severity IN ('CRITICO', 'ALERTA') *)
CountCritical(s) == Len(SelectSeq(s, IsCriticalRisk))

IsOverseas(o) == o.category = "VOTO_EXTERIOR"

(* ... WHERE category = 'VOTO_EXTERIOR' *)
CountOverseas(s) == Len(SelectSeq(s, IsOverseas))

StatsBody(total, critical, overseas) ==
    [ total_observations |-> total,
      critical_risk |-> critical,
      overseas_monitor |-> overseas,
      ire_index |-> IreIndex(critical, total) ]

StatsConnect ==
    /\ Idle
    /\ Connect("stats", "", 0, "stats_total")

StatsCountTotal ==
    /\ pc = "stats_total"
    /\ total_obs' = CountTotal(store)
    /\ pc' = "stats_critical"
    /\ UNCHANGED <<store, registry, req, conn, critical_obs, row, response>>

StatsCountCritical ==
    /\ pc = "stats_critical"
    /\ critical_obs' = CountCritical(store)
    /\ pc' = "stats_overseas"
    /\ UNCHANGED <<store, registry, req, conn, total_obs, row, response>>

StatsCountOverseas ==
    /\ pc = "stats_overseas"
    /\ conn' = "closed"
    /\ UNCHANGED req
    /\ Finish(Ok("stats", StatsBody(total_obs, critical_obs, CountOverseas(store))))

---------------------------------------------------------------------------
(* Ordering of a result set *)

Perms(n) == {f \in [1..n -> 1..n] : \A i, j \in 1..n : i # j => f[i] # f[j]}

(* The results ORDER BY may produce: every arrangement of the rows s that *)
(* is ascending in the sort key (key[i] is the key of s[i]); rows with    *)
(* equal keys come in any order.                                          *)
OrderBy(s, key) ==
    { [i \in 1..Len(s) |-> s[f[i]]] :
        f \in {g \in Perms(Len(s)) :
                 \A i \in 1..(Len(s) - 1) : key[g[i]] <= key[g[i + 1]]} }

(* LIMIT n: a negative n is no limit in SQLite *)
Limit(s, n) == IF n < 0 THEN s ELSE SubSeq(s, 1, Min(n, Len(s)))

---------------------------------------------------------------------------
(* GET /api/observations/latest  get_latest_observations *)

(* ORDER BY captured_at DESC: descending is ascending in the negated key *)
CapturedAtDesc(s) == [i \in DOMAIN s |-> 0 - s[i].captured_at]

LatestRow(o) ==
    [ id |-> o.id, category |-> o.category, title |-> o.indicator,
      severity |-> o.severity, captured_at |-> o.captured_at,
      source_name |-> o.source_name, source_url |-> o.source_url ]

LatestConnect ==
    \E limit \in Limits :
        /\ Idle
        /\ Connect("latest", "", limit, "latest_query")

LatestQuery ==
    /\ pc = "latest_query"
    /\ \E ordered \in OrderBy(store, CapturedAtDesc(store)) :
         LET rows == Limit(ordered, req.limit)
         IN  Finish(Ok("latest", [i \in 1..Len(rows) |-> LatestRow(rows[i])]))
    /\ conn' = "closed"
    /\ UNCHANGED req

---------------------------------------------------------------------------
(* GET /api/elections  get_elections *)

IsActive(e) == e.monitoring_status = "ACTIVE"

(* A filter that only drops the closed missions *)
ActiveElectionsNotClosed(reg) ==
    LET Test(e) == e.monitoring_status # "CLOSED"
    IN  SelectSeq(reg, Test)

(* ... WHERE monitoring_status = 'ACTIVE' *)
ActiveElections(reg) == SelectSeq(reg, IsActive)

(* ORDER BY election_date ASC *)
ElectionDateAsc(s) == [i \in DOMAIN s |-> s[i].election_date]

ElectionItem(r) ==
    [ id |-> r.id, country_iso2 |-> r.country_iso2,
      election_date |-> r.election_date, election_type |-> r.election_type,
      status |-> r.monitoring_status,
      countries |-> [name |-> r.country_name, iso2 |-> r.country_iso2] ]

ElectionsConnect ==
    /\ Idle
    /\ Connect("elections", "", 0, "elections_query")

ElectionsQuery ==
    /\ pc = "elections_query"
    /\ \E rows \in OrderBy(ActiveElections(registry),
                            ElectionDateAsc(ActiveElections(registry))) :
         Finish(Ok("elections", [i \in 1..Len(rows) |-> ElectionItem(rows[i])]))
    /\ conn' = "closed"
    /\ UNCHANGED req

---------------------------------------------------------------------------
(* GET /api/elections/{iso}  get_election_detail, first definition *)

(* country_iso2 = ?  with the parameter iso.upper(): a binary comparison *)
MatchesIso(e, iso) == Chars(e.country_iso2) = Upper(Chars(iso))

(* ... WHERE country_iso2 = ? AND monitoring_status = 'ACTIVE' *)
Detail1Rows(reg, iso) ==
    LET Test(e) == MatchesIso(e, iso) /\ IsActive(e)
    IN  SelectSeq(reg, Test)

(* ... WHERE category LIKE '%ISO%' OR source_name LIKE '%country_name%' *)
Associated(o, iso, name) ==
    \/ Like(Chars(o.category), Upper(Chars(iso)))
    \/ Like(Chars(o.source_name), Chars(name))

(* SELECT COUNT(..) as total, SUM(CASE WHEN severity = 'CRITICO' ..) as critical: *)
(* SUM over no rows is NULL                                                      *)
Detail1StatsRow(s, iso, name) ==
    LET Assoc(o) == Associated(o, iso, name)
        Crit(o) == o.severity = "CRITICO"
        rows == SelectSeq(s, Assoc)
    IN  [ total |-> Some(Len(rows)),
          critical |-> IF rows = <<>> THEN Null ELSE Some(Len(SelectSeq(rows, Crit))) ]

Metadata(r) ==
    [ id |-> r.id, country_iso2 |-> r.country_iso2,
      country_name |-> r.country_name, date |-> r.election_date,
      type |-> r.election_type, status |-> r.monitoring_status ]

Detail1Body(r, stats_row) ==
    [ metadata |-> Metadata(r),
      stats |-> [ total_alerts |-> stats_row.total,
                  critical_alerts |-> stats_row.critical,
                  sentiment_score |-> 65 ] ]

Detail1Connect ==
    \E iso \in IsoArgs :
        /\ Idle
        /\ Connect("detail1", iso, 0, "detail1_select")

Detail1Select ==
    /\ pc = "detail1_select"
    /\ \E ordered \in OrderBy(Detail1Rows(registry, req.iso),
                               ElectionDateAsc(Detail1Rows(registry, req.iso))) :
         LET rows == Limit(ordered, 1)
         IN  IF rows = <<>>
             THEN /\ conn' = "closed"
                  /\ UNCHANGED req
                  /\ Finish(HttpError("detail1", 404, "Election not found"))
             ELSE /\ row' = <<rows[1]>>
                  /\ pc' = "detail1_stats"
                  /\ UNCHANGED <<store, registry, req, conn, total_obs,
                                 critical_obs, response>>

Detail1Stats ==
    /\ pc = "detail1_stats"
    /\ conn' = "closed"
    /\ UNCHANGED req
    /\ Finish(Ok("detail1",
                 Detail1Body(row[1],
                             Detail1StatsRow(store, req.iso, row[1].country_name))))

---------------------------------------------------------------------------
(* GET /api/elections/{iso}  get_election_detail, second definition *)

(* ... WHERE country_iso2 = ?   (no ORDER BY: fetchone() takes any match) *)
Detail2Rows(reg, iso) ==
    LET Test(e) == MatchesIso(e, iso)
    IN  SelectSeq(reg, Test)

Detail2Body(r) ==
    [ metadata |-> Metadata(r),
      stats |-> [ total_alerts |-> Some(0),
                  critical_alerts |-> Some(0),
                  sentiment_score |-> 75 ] ]

Detail2Connect ==
    \E iso \in IsoArgs :
        /\ Idle
        /\ Connect("detail2", iso, 0, "detail2_select")

(* The 404 raised inside the try is an Exception: the handler's only except *)
(* clause turns it into a 500 whose detail is str() of the 404.             *)
Detail2Select ==
    /\ pc = "detail2_select"
    /\ conn' = "closed"
    /\ UNCHANGED req
    /\ LET rows == Detail2Rows(registry, req.iso)
       IN  IF rows = <<>>
           THEN Finish(HttpError("detail2", 500, "404: Election not found"))
           ELSE \E i \in DOMAIN rows : Finish(Ok("detail2", Detail2Body(rows[i])))

---------------------------------------------------------------------------
(* GET /api/reports  list_reports *)

FilePool ==
    { "MOEP_NG_INTEGRAL.html", "MOEP_NG_R2_INTEGRAL.html",
      "MOEP_KE_INTEGRAL.html", "README.md" }

Texts == FilePool \cup {"NG", "KE", "UG", "AR", "??"}

Text(cs) == CHOOSE s \in Texts : Chars(s) = cs

(* What scanning data/reports/moep may yield: its files in any order *)
Listings ==
    { s \in UNION {[1..n -> FilePool] : n \in 0..Cardinality(FilePool)} :
        \A i, j \in DOMAIN s : i # j => s[i] # s[j] }

(* glob("MOEP_*_INTEGRAL.html") *)
GlobMatch(cs) ==
    LET pre == <<"M", "O", "E", "P", "_">>
        suf == <<"_", "I", "N", "T", "E", "G", "R", "A", "L", ".", "h", "t", "m", "l">>
    IN  /\ Len(cs) >= Len(pre) + Len(suf)
        /\ SubSeq(cs, 1, Len(pre)) = pre
        /\ SubSeq(cs, Len(cs) - Len(suf) + 1, Len(cs)) = suf

(* Path.stem: the name without its last suffix *)
Stem(cs) ==
    LET dots == {i \in 1..Len(cs) : cs[i] = "."}
        d == IF dots = {} THEN 0 ELSE CHOOSE i \in dots : \A j \in dots : j <= i
    IN  IF 1 < d /\ d < Len(cs) THEN SubSeq(cs, 1, d - 1) ELSE cs

(* str.split(sep) *)
RECURSIVE Split(_, _)
Split(cs, sep) ==
    LET at == {i \in 1..Len(cs) : cs[i] = sep}
    IN  IF at = {} THEN <<cs>>
        ELSE LET i == CHOOSE k \in at : \A j \in at : k <= j
             IN  <<SubSeq(cs, 1, i - 1)>> \o Split(SubSeq(cs, i + 1, Len(cs)), sep)

(* parts[1] if len(parts) > 1 else "??" *)
CountryIso(cs) ==
    LET parts == Split(Stem(cs), "_")
    IN  IF Len(parts) > 1 THEN Text(parts[2]) ELSE "??"

(* The entry of one file; path, size_kb and created_at are not modelled *)
Evidence(name) ==
    [filename |-> name, type |-> "MOEP", country_iso |-> CountryIso(Chars(name))]

(* insertion of x behind every entry whose key is not greater than x's *)
InsertByCountry(x, sorted) ==
    LET p == Cardinality({i \in DOMAIN sorted :
                            ~StrLess(x.country_iso, sorted[i].country_iso)})
    IN  SubSeq(sorted, 1, p) \o <<x>> \o SubSeq(sorted, p + 1, Len(sorted))

(* evidence.sort(key=lambda x: x["country_iso"]): list.sort is stable *)
RECURSIVE SortByCountry(_)
SortByCountry(s) ==
    IF s = <<>> THEN <<>>
    ELSE InsertByCountry(s[Len(s)], SortByCountry(SubSeq(s, 1, Len(s) - 1)))

ScanMoep(listing) ==
    LET Matches(name) == GlobMatch(Chars(name))
        found == SelectSeq(listing, Matches)
    IN  [i \in 1..Len(found) |-> Evidence(found[i])]

(* The body of list_reports: moep_dir.exists() and the scan are its inputs *)
ListReportsBody(exists, listing) ==
    IF exists THEN SortByCountry(ScanMoep(listing)) ELSE <<>>

(* Every body list_reports can return, over the directories of the model *)
ReportBodies ==
    {ListReportsBody(exists, listing) : exists \in BOOLEAN, listing \in Listings}

ListReports ==
    \E body \in ReportBodies :
        /\ Idle
        /\ req' = [handler |-> "reports", iso |-> "", limit |-> 0]
        /\ conn' = "none"
        /\ Finish(Ok("reports", body))

---------------------------------------------------------------------------

Next ==
    \/ Ingest
    \/ RegisterElection
    \/ ReadRoot
    \/ ConnectRaises
    \/ QueryRaises
    \/ StatsConnect
    \/ StatsCountTotal
    \/ StatsCountCritical
    \/ StatsCountOverseas
    \/ LatestConnect
    \/ LatestQuery
    \/ ElectionsConnect
    \/ ElectionsQuery
    \/ Detail1Connect
    \/ Detail1Select
    \/ Detail1Stats
    \/ Detail2Connect
    \/ Detail2Select
    \/ ListReports

Spec == Init /\ [][Next]_vars

---------------------------------------------------------------------------
(* Properties *)

StatsReturned == response.handler = "stats" /\ response.status = 200

(* ire_index is clamped: every dashboard result has 0 <= ire_index <= 100 *)
IreIndexInRange ==
    StatsReturned => 0 <= response.body.ire_index /\ response.body.ire_index <= 1000

(* C1: every result of get_dashboard_stats has 0 <= ire_index <= 100, and *)
(* ire_index = 0 when its total_observations = 0.                          *)
C1_IreRangeAndZeroWhenEmpty ==
    StatsReturned =>
        /\ 0 <= response.body.ire_index
        /\ response.body.ire_index <= 1000
        /\ response.body.total_observations = 0 => response.body.ire_index = 0

(* C2: the result of get_dashboard_stats has the five fields              *)
(* total_observations, critical_risk, overseas_monitor, ire_index and     *)
(* active_elections; the counts are those of the store (all rows, rows of *)
(* severity CRITICO or ALERTA, rows of category VOTO_EXTERIOR) and of the *)
(* registry (rows of status ACTIVE).                                      *)
C2_DashboardFields ==
    [][ (pc = "stats_overseas" /\ response'.handler = "stats"
                               /\ response'.status = 200) =>
          LET b == response'.body
          IN  /\ DOMAIN b = { "total_observations", "critical_risk",
                              "overseas_monitor", "ire_index", "active_elections" }
              /\ b.total_observations = Len(store)
              /\ b.critical_risk =
                   Cardinality({i \in DOMAIN store :
                                  store[i].severity \in {"CRITICO", "ALERTA"}})
              /\ b.overseas_monitor =
                   Cardinality({i \in DOMAIN store :
                                  store[i].category = "VOTO_EXTERIOR"})
              /\ b.active_elections =
                   Cardinality({k \in DOMAIN registry :
                                  registry[k].monitoring_status = "ACTIVE"})
      ]_vars

(* C3: get_elections returns exactly the elections of the registry whose  *)
(* monitoring_status is ACTIVE, each once and none of another status,     *)
(* ordered ascending by election_date.                                    *)
C3_ListActive ==
    [][ (pc = "elections_query" /\ response'.handler = "elections"
                                /\ response'.status = 200) =>
          LET b == response'.body
              active == {k \in DOMAIN registry :
                           registry[k].monitoring_status = "ACTIVE"}
          IN  /\ \A i \in DOMAIN b : b[i].status = "ACTIVE"
              /\ {b[i].id : i \in DOMAIN b} = {registry[k].id : k \in active}
              /\ Len(b) = Cardinality(active)
              /\ \A i \in DOMAIN b :
                   \E k \in active :
                      /\ b[i].id = registry[k].id
                      /\ b[i].election_date = registry[k].election_date
                      /\ b[i].country_iso2 = registry[k].country_iso2
              /\ \A i \in 1..(Len(b) - 1) :
                   b[i].election_date <= b[i + 1].election_date
      ]_vars

(* C3 witness: two active elections came back, the later registered first *)
C3_Witness ==
    /\ response.handler = "elections"
    /\ response.status = 200
    /\ Len(response.body) = 2
    /\ response.body[1].id > response.body[2].id
    /\ response.body[1].election_date < response.body[2].election_date

(* C4: for every integer limit, get_latest_observations returns at most   *)
(* limit rows, non-increasing by captured_at; nothing from an empty store *)
C4_LatestAtMostLimit ==
    [][ (pc = "latest_query" /\ response'.handler = "latest"
                             /\ response'.status = 200) =>
          LET b == response'.body
          IN  /\ Len(b) <= req.limit
              /\ \A i \in 1..(Len(b) - 1) : b[i].captured_at >= b[i + 1].captured_at
              /\ store = <<>> => b = <<>>
      ]_vars

(* The select step of either get_election_detail, the database answering *)
DetailSelected ==
    /\ pc \in {"detail1_select", "detail2_select"}
    /\ pc' # pc
    /\ response'.detail # "sqlite3 error"

(* The rows whose country_iso2 equals the iso argument, case ignored *)
IsoMatches ==
    {k \in DOMAIN registry :
       Upper(Chars(registry[k].country_iso2)) = Upper(Chars(req.iso))}

(* C5: for an iso code that no election has, each get_election_detail     *)
(* ends in HTTP 404 'Election not found', not in HTTP 500 nor in a record *)
C5_UnknownIsoNotFound ==
    [][ (DetailSelected /\ IsoMatches = {}) =>
          /\ pc' = "done"
          /\ response'.status = 404
          /\ response'.detail = "Election not found"
      ]_vars

(* C6: get_election_detail ends without a record only when no row has the *)
(* iso (case ignored); otherwise the record is a matching row, the one of  *)
(* the earliest election_date, whatever the rows' monitoring_status.       *)
C6_EarliestMatchingElection ==
    [][ DetailSelected =>
          LET returned ==
                IF req.handler = "detail1"
                THEN {row'[i].id : i \in DOMAIN row'}
                ELSE IF response'.status = 200
                     THEN {response'.body.metadata.id}
                     ELSE {}
          IN  /\ returned = {} <=> IsoMatches = {}
              /\ \A id \in returned :
                   \E k \in IsoMatches :
                      /\ registry[k].id = id
                      /\ \A j \in IsoMatches :
                           registry[k].election_date <= registry[j].election_date
      ]_vars

(* C7: for a found election, stats.total_alerts is the number of          *)
(* observations associated with its country and stats.critical_alerts the *)
(* number of those of severity CRITICO: natural numbers, never null,      *)
(* critical_alerts <= total_alerts, both 0 when none is associated.       *)
C7_AlertCounts ==
    [][ (pc \in {"detail1_stats", "detail2_select"} /\ response'.status = 200) =>
          LET m == response'.body.metadata
              st == response'.body.stats
              assoc == {i \in DOMAIN store :
                          Associated(store[i], m.country_iso2, m.country_name)}
              crit == {i \in assoc : store[i].severity = "CRITICO"}
          IN  /\ st.total_alerts = Some(Cardinality(assoc))
              /\ st.critical_alerts = Some(Cardinality(crit))
      ]_vars

(* C8: list_reports returns its entries sorted ascending by country_iso   *)
(* and, among equal country_iso, ascending by filename.                   *)
C8_ReportsSortedByCountryThenFile ==
    (response.handler = "reports" /\ response.status = 200) =>
        \A i \in 1..(Len(response.body) - 1) :
            LET a == response.body[i]
                b == response.body[i + 1]
            IN  \/ StrLess(a.country_iso, b.country_iso)
                \/ /\ a.country_iso = b.country_iso
                   /\ ~StrLess(b.filename, a.filename)

(* C9: when a request has finished, on whatever path, its connection is   *)
(* not open.                                                              *)
C9_ConnectionClosedAtExit ==
    pc = "done" => conn # "open"

(* C10: every result of get_dashboard_stats has critical_risk and         *)
(* overseas_monitor at most total_observations, also when observations    *)
(* are ingested between its COUNT queries.                                *)
C10_CountsConsistent ==
    StatsReturned =>
        /\ response.body.critical_risk <= response.body.total_observations
        /\ response.body.overseas_monitor <= response.body.total_observations

=============================================================================
